---- MODULE Spec2Model ----
(***************************************************************************)
(* A model of TPCUtils (src/service/RTC/VideoType.js): the simulcast       *)
(* encoding configuration, the encoding policy functions, the two SDP      *)
(* post-processing functions and the transceiver operations on a unified   *)
(* plan peerconnection.                                                    *)
(*                                                                         *)
(* Four groups of variables, one per part of the class:                   *)
(*   - browser, isSimulcastOn, videoBitrates, localStreamEncodingsConfig:  *)
(*     the browser predicates, the connection's simulcast option, and what *)
(*     the constructor is given and builds;                                *)
(*   - enc: the last call of an encoding policy function, with its inputs; *)
(*   - sdp*: a session description and the last SDP function applied;      *)
(*   - transceivers, localTracks, pending, result: the peerconnection's    *)
(*     transceiver list, the pc.localTracks map, the transport promises in *)
(*     flight and the outcome of the last operation called.                *)
(***************************************************************************)
EXTENDS Integers, Sequences, FiniteSets, TLC

VARIABLES browser, isSimulcastOn, videoBitrates, localStreamEncodingsConfig,
          enc,
          sdpDesc, sdpPrev, sdpOut, sdpCalls,
          transceivers, localTracks, pending, result

cfgVars == <<browser, isSimulcastOn, videoBitrates, localStreamEncodingsConfig>>
sdpVars == <<sdpDesc, sdpPrev, sdpOut, sdpCalls>>
pcVars == <<transceivers, localTracks, pending, result>>
vars == <<browser, isSimulcastOn, videoBitrates, localStreamEncodingsConfig, enc,
          sdpDesc, sdpPrev, sdpOut, sdpCalls,
          transceivers, localTracks, pending, result>>

(***************************************************************************)
(* JavaScript values.  An optional value is a sequence: <<>> is undefined  *)
(* (or null), <<v>> is the value v.                                        *)
(***************************************************************************)
Undefined == <<>>
Some(v) == <<v>>
IsDefined(o) == o # <<>>

\* x || y on an optional number: 0 and undefined are falsy.
OrElse(o, d) == IF IsDefined(o) /\ o[1] # 0 THEN o[1] ELSE d

Range(s) == {s[i] : i \in DOMAIN s}

SeqsUpTo(S, n) == UNION {[1..k -> S] : k \in 0..n}

(***************************************************************************)
(* Module constants.                                                       *)
(***************************************************************************)
SIM_LAYER_1_RID == "1"
SIM_LAYER_2_RID == "2"
SIM_LAYER_3_RID == "3"
SIM_LAYER_RIDS == <<SIM_LAYER_1_RID, SIM_LAYER_2_RID, SIM_LAYER_3_RID>>

AUDIO == "audio"
VIDEO == "video"
CAMERA == "camera"
DESKTOP == "desktop"

\* Used by the class and defined in other modules.
LD_SCALE_FACTOR == 4
HD_SCALE_FACTOR == 1
HD_BITRATE == 2500000
DESKTOP_SHARE_RATE == 500000
RECVONLY == "recvonly"
INACTIVE == "inactive"
SENDRECV == "sendrecv"

(***************************************************************************)
(* The browser module: which family the browser is of, whether simulcast   *)
(* is turned on by SDP munging there, and whether its version is above 71. *)
(***************************************************************************)
Families == {"firefox", "chromium", "webkit"}

Browsers ==
    [family : Families, usesSdpMungingForSimulcast : BOOLEAN,
     isVersionGreaterThan71 : BOOLEAN]

isFirefox == browser.family = "firefox"
isWebKitBased == browser.family = "webkit"
isChromiumBased == browser.family = "chromium"

\* The configuration with the same layer order on every browser (a mutation
\* of BuildEncodingsConfig).
BuildEncodingsConfigOneOrder(firefox, bitrates) ==
    << [active |-> TRUE,
        maxBitrate |-> Some(bitrates.low),
        rid |-> SIM_LAYER_1_RID,
        scaleResolutionDownBy |-> 4],
       [active |-> TRUE,
        maxBitrate |-> Some(bitrates.standard),
        rid |-> SIM_LAYER_2_RID,
        scaleResolutionDownBy |-> 2],
       [active |-> TRUE,
        maxBitrate |-> Some(bitrates.high),
        rid |-> SIM_LAYER_3_RID,
        scaleResolutionDownBy |-> 1] >>

(***************************************************************************)
(* The constructor: localStreamEncodingsConfig.                            *)
(***************************************************************************)
BuildEncodingsConfig(firefox, bitrates) ==
    << [active |-> TRUE,
        maxBitrate |-> Some(IF firefox THEN bitrates.high ELSE bitrates.low),
        rid |-> SIM_LAYER_1_RID,
        scaleResolutionDownBy |-> IF firefox THEN 1 ELSE 4],
       [active |-> TRUE,
        maxBitrate |-> Some(bitrates.standard),
        rid |-> SIM_LAYER_2_RID,
        scaleResolutionDownBy |-> 2],
       [active |-> TRUE,
        maxBitrate |-> Some(IF firefox THEN bitrates.low ELSE bitrates.high),
        rid |-> SIM_LAYER_3_RID,
        scaleResolutionDownBy |-> IF firefox THEN 4 ELSE 1] >>

\* The videoBitrates objects a connection is constructed with.
VideoBitratesChoices ==
    { [low |-> 200000, standard |-> 500000, high |-> 1500000],
      [low |-> 100000, standard |-> 300000, high |-> 2500000] }

\* The constructor, on one of the given browsers with one of the given bitrates.
Constructor(browsers, simulcast, bitrates) ==
    /\ browser \in browsers
    /\ isSimulcastOn \in simulcast
    /\ videoBitrates \in bitrates
    /\ localStreamEncodingsConfig = BuildEncodingsConfig(isFirefox, videoBitrates)

(***************************************************************************)
(* _getStreamEncodings                                                     *)
(***************************************************************************)
getStreamEncodings(isVideoTrack) ==
    IF isSimulcastOn /\ isVideoTrack
    THEN [kind |-> "simulcast", list |-> localStreamEncodingsConfig]
    ELSE IF isVideoTrack
         THEN [kind |-> "single",
               list |-> << [active |-> TRUE, maxBitrate |-> Some(videoBitrates.high)] >>]
         ELSE [kind |-> "single",
               list |-> << [active |-> TRUE, maxBitrate |-> Undefined] >>]

(***************************************************************************)
(* calculateEncodingsActiveState.  height / scaleResolutionDownBy is a     *)
(* real number: a frame height is kept as the fraction num / den and       *)
(* compared exactly.                                                       *)
(***************************************************************************)
FrameHeight(height, encoding) == [num |-> height, den |-> encoding.scaleResolutionDownBy]

FrameHeightLeq(frameHeight, newHeight) == frameHeight.num <= newHeight * frameHeight.den

FrameHeightLt(frameHeight, newHeight) == frameHeight.num < newHeight * frameHeight.den

\* The flag of one layer with `<` for `<=` (a mutation of EncodingActive).
EncodingActiveStrict(in, idx) ==
    LET frameHeight == FrameHeight(in.height, localStreamEncodingsConfig[idx])
        scale == localStreamEncodingsConfig[idx].scaleResolutionDownBy
        active == IF in.videoType = CAMERA
                  THEN IF in.newHeight > 0 /\ scale = LD_SCALE_FACTOR
                       THEN TRUE
                       ELSE FrameHeightLt(frameHeight, in.newHeight)
                  ELSE TRUE
    IN  IF /\ in.isSharingLowFpsScreen
           /\ in.videoType = DESKTOP
           /\ in.usesUnifiedPlan
           /\ ~isWebKitBased
           /\ scale # HD_SCALE_FACTOR
        THEN FALSE
        ELSE active

\* The flag of one layer with the WebKit exemption dropped (a mutation of
\* EncodingActive).
EncodingActiveNoExemption(in, idx) ==
    LET frameHeight == FrameHeight(in.height, localStreamEncodingsConfig[idx])
        scale == localStreamEncodingsConfig[idx].scaleResolutionDownBy
        active == IF in.videoType = CAMERA
                  THEN IF in.newHeight > 0 /\ scale = LD_SCALE_FACTOR
                       THEN TRUE
                       ELSE FrameHeightLeq(frameHeight, in.newHeight)
                  ELSE TRUE
    IN  IF /\ in.isSharingLowFpsScreen
           /\ in.videoType = DESKTOP
           /\ in.usesUnifiedPlan
           /\ scale # HD_SCALE_FACTOR
        THEN FALSE
        ELSE active

\* The body of the second .map(): the flag of the layer at idx.
EncodingActive(in, idx) ==
    LET frameHeight == FrameHeight(in.height, localStreamEncodingsConfig[idx])
        scale == localStreamEncodingsConfig[idx].scaleResolutionDownBy
        active == IF in.videoType = CAMERA
                  THEN IF in.newHeight > 0 /\ scale = LD_SCALE_FACTOR
                       THEN TRUE
                       ELSE FrameHeightLeq(frameHeight, in.newHeight)
                  ELSE TRUE
    IN  IF /\ in.isSharingLowFpsScreen
           /\ in.videoType = DESKTOP
           /\ in.usesUnifiedPlan
           /\ ~isWebKitBased
           /\ scale # HD_SCALE_FACTOR
        THEN FALSE
        ELSE active

calculateEncodingsActiveState(in) ==
    [idx \in DOMAIN localStreamEncodingsConfig |-> EncodingActive(in, idx)]

(***************************************************************************)
(* calculateEncodingsBitrates                                              *)
(***************************************************************************)
PresenterEnabled(in) ==
    /\ IsDefined(in.originalStreamId)
    /\ in.originalStreamId[1] # in.streamId

\* The bitrate of one layer with the plan-b test dropped (a mutation of
\* EncodingBitrate).
EncodingBitrateNoPlanB(in, encoding) ==
    LET desktopShareBitrate == OrElse(in.desktopBitrate, DESKTOP_SHARE_RATE)
    IN  IF in.isSharingLowFpsScreen /\ ~isWebKitBased
        THEN IF PresenterEnabled(in) THEN Some(HD_BITRATE) ELSE Some(desktopShareBitrate)
        ELSE IF in.videoType = DESKTOP /\ isChromiumBased
             THEN Undefined
             ELSE encoding.maxBitrate

\* The body of the .map(): the bitrate of one layer.
EncodingBitrate(in, encoding) ==
    LET desktopShareBitrate == OrElse(in.desktopBitrate, DESKTOP_SHARE_RATE)
    IN  IF in.isSharingLowFpsScreen /\ ~isWebKitBased
        THEN IF PresenterEnabled(in) THEN Some(HD_BITRATE) ELSE Some(desktopShareBitrate)
        ELSE IF in.videoType = DESKTOP /\ isChromiumBased /\ ~in.usesUnifiedPlan
             THEN Undefined
             ELSE encoding.maxBitrate

calculateEncodingsBitrates(in) ==
    [idx \in DOMAIN localStreamEncodingsConfig |->
        EncodingBitrate(in, localStreamEncodingsConfig[idx])]

(***************************************************************************)
(* The inputs of the encoding policy functions.                            *)
(***************************************************************************)
CaptureHeights == {90, 179, 180, 360, 719, 720, 721, 1080}
RequestedHeights == {0, 1, 180, 360, 720, 2160}
StreamIds == {"s1", "s2"}
DesktopBitrateOptions == {Undefined, Some(0), Some(300000)}

NoEnc == [fn |-> "none"]

CallActiveState ==
    /\ \E height \in CaptureHeights, newHeight \in RequestedHeights,
          videoType \in {CAMERA, DESKTOP},
          lowFps \in BOOLEAN, unified \in BOOLEAN :
         LET in == [height |-> height, newHeight |-> newHeight, videoType |-> videoType,
                    isSharingLowFpsScreen |-> lowFps, usesUnifiedPlan |-> unified]
         IN  enc' = [fn |-> "calculateEncodingsActiveState", in |-> in,
                     out |-> calculateEncodingsActiveState(in)]
    /\ UNCHANGED <<cfgVars, sdpVars, pcVars>>

CallBitrates ==
    /\ \E videoType \in {CAMERA, DESKTOP},
          lowFps \in BOOLEAN, unified \in BOOLEAN,
          originalStreamId \in {Undefined} \cup {Some(s) : s \in StreamIds},
          desktopBitrate \in DesktopBitrateOptions :
         LET in == [videoType |-> videoType,
                    isSharingLowFpsScreen |-> lowFps, usesUnifiedPlan |-> unified,
                    originalStreamId |-> originalStreamId, streamId |-> "s1",
                    desktopBitrate |-> desktopBitrate]
         IN  enc' = [fn |-> "calculateEncodingsBitrates", in |-> in,
                     out |-> calculateEncodingsBitrates(in)]
    /\ UNCHANGED <<cfgVars, sdpVars, pcVars>>

(***************************************************************************)
(* Session descriptions.  The sdp text of a description is kept as the     *)
(* list of its media sections, each with its type and its attribute lines  *)
(* in the order of the text.  A line is one of                             *)
(*   [a |-> "mid", value],                                                 *)
(*   [a |-> "ssrc", id, attribute],                                        *)
(*   [a |-> "ssrc-group", semantics, ssrcs]       ssrcs: the ids, in order *)
(*   [a |-> "rid", id, direction],                                         *)
(*   [a |-> "simulcast", dir1, list1],            a=simulcast:recv 1;2;3   *)
(*   [a |-> "simulcast_03", value]                a=simulcast: recv rid=.. *)
(***************************************************************************)
LinesOf(lines, kind) == SelectSeq(lines, LAMBDA l : l.a = kind)

\* A list attribute of a parsed section: undefined when the text has no such line.
ParsedList(lines, kind) ==
    IF LinesOf(lines, kind) = <<>> THEN Undefined ELSE Some(LinesOf(lines, kind))

\* A single-valued attribute of a parsed section: the last such line wins.
ParsedOne(lines, kind) ==
    IF LinesOf(lines, kind) = <<>>
    THEN Undefined
    ELSE Some(LinesOf(lines, kind)[Len(LinesOf(lines, kind))])

\* transform.parse on one media section.
ParseMedia(section) ==
    [type |-> section.type,
     mid |-> ParsedOne(section.lines, "mid"),
     ssrcs |-> ParsedList(section.lines, "ssrc"),
     ssrcGroups |-> ParsedList(section.lines, "ssrc-group"),
     rids |-> ParsedList(section.lines, "rid"),
     simulcast |-> ParsedOne(section.lines, "simulcast"),
     simulcast_03 |-> ParsedOne(section.lines, "simulcast_03")]

\* transform.parse: the parsed view, the media sections in the order of the text.
Parse(sdp) == [i \in DOMAIN sdp |-> ParseMedia(sdp[i])]

ListLines(o) == IF IsDefined(o) THEN o[1] ELSE <<>>

\* transform.write on one media section: the attributes that are set, in the
\* order of the grammar (mid, ssrc, ssrc-group, rid, simulcast, simulcast_03).
WriteMedia(mLine) ==
    [type |-> mLine.type,
     lines |-> mLine.mid \o ListLines(mLine.ssrcs) \o ListLines(mLine.ssrcGroups)
               \o ListLines(mLine.rids) \o mLine.simulcast \o mLine.simulcast_03]

Write(parsedSdp) == [i \in DOMAIN parsedSdp |-> WriteMedia(parsedSdp[i])]

(***************************************************************************)
(* ensureCorrectOrderOfSsrcs                                               *)
(***************************************************************************)
RECURSIVE Flatten(_)
Flatten(ss) == IF ss = <<>> THEN <<>> ELSE Head(ss) \o Flatten(Tail(ss))

\* A Set built by add() in the order of s: first appearances, in order.
RECURSIVE Dedup(_)
Dedup(s) ==
    IF s = <<>>
    THEN <<>>
    ELSE LET init == Dedup(SubSeq(s, 1, Len(s) - 1))
             last == s[Len(s)]
         IN  IF last \in Range(init) THEN init ELSE Append(init, last)

\* The Set replaced by a list that keeps repeats (a mutation of Dedup).
KeepRepeats(s) == s

\* The ssrcs Set of one section: every id the groups name.
GroupSsrcs(mLine) ==
    Dedup(Flatten([g \in DOMAIN mLine.ssrcGroups[1] |-> mLine.ssrcGroups[1][g].ssrcs]))

\* The loop walking the Set backwards (a mutation of ReorderedSsrcs).
RECURSIVE ReorderedBackwards(_, _)
ReorderedBackwards(ids, ssrcs) ==
    IF ids = <<>>
    THEN <<>>
    ELSE ReorderedBackwards(Tail(ids), ssrcs)
         \o SelectSeq(ssrcs, LAMBDA source : source.id = Head(ids))

\* The ssrcs.forEach loop: the entries of each id of the Set, in the Set's order.
RECURSIVE ReorderedSsrcs(_, _)
ReorderedSsrcs(ids, ssrcs) ==
    IF ids = <<>>
    THEN <<>>
    ELSE SelectSeq(ssrcs, LAMBDA source : source.id = Head(ids))
         \o ReorderedSsrcs(Tail(ids), ssrcs)

\* The loop with, for each id, only its first entry (a mutation of ReorderedSsrcs).
RECURSIVE ReorderedFirstOnly(_, _)
ReorderedFirstOnly(ids, ssrcs) ==
    IF ids = <<>>
    THEN <<>>
    ELSE (LET sources == SelectSeq(ssrcs, LAMBDA source : source.id = Head(ids))
          IN  IF sources = <<>> THEN <<>> ELSE <<sources[1]>>)
         \o ReorderedFirstOnly(Tail(ids), ssrcs)

\* Whether the forEach callback returns early on this section.
SkipsSsrcOrder(mLine) ==
    \/ mLine.type = AUDIO
    \/ ~IsDefined(mLine.ssrcGroups)
    \/ Len(mLine.ssrcGroups[1]) = 0

\* mLine.ssrcs.filter on a section without ssrc lines: a TypeError.
SsrcOrderThrows(mLine) == ~SkipsSsrcOrder(mLine) /\ ~IsDefined(mLine.ssrcs)

\* The forEach callback on one section.
EnsureOrderMedia(mLine) ==
    IF SkipsSsrcOrder(mLine)
    THEN mLine
    ELSE [mLine EXCEPT !.ssrcs = Some(ReorderedSsrcs(GroupSsrcs(mLine), mLine.ssrcs[1]))]

ensureCorrectOrderOfSsrcs(description) ==
    LET parsedSdp == Parse(description.sdp)
    IN  IF \E i \in DOMAIN parsedSdp : SsrcOrderThrows(parsedSdp[i])
        THEN [status |-> "threw", error |-> "TypeError"]
        ELSE [status |-> "returned",
              desc |-> [type |-> description.type,
                        sdp |-> Write([i \in DOMAIN parsedSdp |->
                                          EnsureOrderMedia(parsedSdp[i])])]]

(***************************************************************************)
(* insertUnifiedPlanSimulcastReceive                                       *)
(***************************************************************************)
\* sdp.media.findIndex(mline => mline.type === 'video'): 0 stands for -1.
RECURSIVE FindVideo(_, _)
FindVideo(media, i) ==
    IF i > Len(media) THEN 0
    ELSE IF media[i].type = VIDEO THEN i
    ELSE FindVideo(media, i + 1)

\* findIndex looking for the last video section (a mutation of FirstVideoIndex).
RECURSIVE FindLastVideo(_, _)
FindLastVideo(media, i) ==
    IF i < 1 THEN 0
    ELSE IF media[i].type = VIDEO THEN i
    ELSE FindLastVideo(media, i - 1)

LastVideoIndex(media) == FindLastVideo(media, Len(media))

FirstVideoIndex(media) == FindVideo(media, 1)

\* rids && (simulcast_03 || simulcast) on one section.
AdvertisesSimulcast(mLine) ==
    IsDefined(mLine.rids) /\ (IsDefined(mLine.simulcast_03) \/ IsDefined(mLine.simulcast))

\* The three receive rids in the order 3, 2, 1 (a mutation of ReceiveRids).
ReceiveRidsReversed ==
    << [a |-> "rid", id |-> SIM_LAYER_3_RID, direction |-> "recv"],
       [a |-> "rid", id |-> SIM_LAYER_2_RID, direction |-> "recv"],
       [a |-> "rid", id |-> SIM_LAYER_1_RID, direction |-> "recv"] >>

ReceiveRids ==
    << [a |-> "rid", id |-> SIM_LAYER_1_RID, direction |-> "recv"],
       [a |-> "rid", id |-> SIM_LAYER_2_RID, direction |-> "recv"],
       [a |-> "rid", id |-> SIM_LAYER_3_RID, direction |-> "recv"] >>

\* `recv ${SIM_LAYER_RIDS.join(';')}` or `recv rid=${SIM_LAYER_RIDS.join(';')}`:
\* the direction, whether the legacy rid= token is there, and the joined rids.
SimulcastLine ==
    [dir |-> "recv",
     ridToken |-> ~(isFirefox /\ browser.isVersionGreaterThan71),
     list |-> SIM_LAYER_RIDS]

\* The forEach that clears the other video sections.
StripOtherVideo(media, idx) ==
    [i \in DOMAIN media |->
        IF media[i].type = VIDEO /\ i # idx
        THEN [media[i] EXCEPT !.rids = Undefined, !.simulcast = Undefined,
                              !.simulcast_03 = Undefined]
        ELSE media[i]]

\* The two assignments that advertise simulcast receive on section idx.
InjectReceive(media, idx) ==
    [media EXCEPT ![idx].rids = Some(ReceiveRids),
                  ![idx].simulcast_03 =
                      Some([a |-> "simulcast_03", value |-> SimulcastLine])]

insertUnifiedPlanSimulcastReceive(desc) ==
    IF browser.usesSdpMungingForSimulcast
    THEN [status |-> "returned", desc |-> desc]
    ELSE LET sdp == Parse(desc.sdp)
             idx == FirstVideoIndex(sdp)
         IN  IF idx = 0
             THEN \* sdp.media[-1] is undefined: reading .rids of it is a TypeError
                  [status |-> "threw", error |-> "TypeError"]
             ELSE IF AdvertisesSimulcast(sdp[idx])
                  THEN [status |-> "returned",
                        desc |-> [type |-> desc.type,
                                  sdp |-> Write(StripOtherVideo(sdp, idx))]]
                  ELSE [status |-> "returned",
                        desc |-> [type |-> desc.type,
                                  sdp |-> Write(InjectReceive(sdp, idx))]]

(***************************************************************************)
(* The descriptions the SDP functions are applied to.                      *)
(***************************************************************************)
MaxSsrcLines == 3
MaxGroups == 2
MaxMedia == 2
MaxSdpCalls == 2

SsrcIds == {1, 2, 3}

SsrcLines == [a : {"ssrc"}, id : SsrcIds, attribute : {"cname", "msid"}]

GroupLines ==
    { [a |-> "ssrc-group", semantics |-> "FID", ssrcs |-> <<1, 2>>],
      [a |-> "ssrc-group", semantics |-> "FID", ssrcs |-> <<2, 1>>],
      [a |-> "ssrc-group", semantics |-> "SIM", ssrcs |-> <<1, 3>>] }

MidLine == [a |-> "mid", value |-> "0"]

\* A section of the ssrc descriptions: its ssrc-group lines may come before
\* or after its ssrc lines in the text.
SsrcSections ==
    { [type |-> t, lines |-> IF groupsFirst THEN g \o s \o <<MidLine>>
                                             ELSE <<MidLine>> \o s \o g] :
        t \in {AUDIO, VIDEO}, groupsFirst \in BOOLEAN,
        s \in SeqsUpTo(SsrcLines, MaxSsrcLines), g \in SeqsUpTo(GroupLines, MaxGroups) }

\* A few sections that go second in a description of two sections.
SecondSsrcSections ==
    { [type |-> t, lines |-> g \o s] :
        t \in {AUDIO, VIDEO},
        s \in { <<>>,
                << [a |-> "ssrc", id |-> 2, attribute |-> "cname"],
                   [a |-> "ssrc", id |-> 1, attribute |-> "cname"] >> },
        g \in SeqsUpTo(GroupLines, 1) }

SsrcDescriptions ==
    { [type |-> "offer", sdp |-> m] :
        m \in {<<s>> : s \in SsrcSections}
              \cup {<<s, t>> : s \in SecondSsrcSections, t \in SecondSsrcSections} }

\* The rid and simulcast lines a section may come with.
RidVariants ==
    { <<>>,
      << [a |-> "rid", id |-> "1", direction |-> "recv"] >>,
      << [a |-> "simulcast", dir1 |-> "recv", list1 |-> <<"1", "2", "3">>] >>,
      << [a |-> "simulcast", dir1 |-> "send", list1 |-> <<"1", "2", "3">>],
         [a |-> "rid", id |-> "1", direction |-> "send"],
         [a |-> "rid", id |-> "2", direction |-> "send"],
         [a |-> "rid", id |-> "3", direction |-> "send"] >>,
      << [a |-> "rid", id |-> "1", direction |-> "recv"],
         [a |-> "rid", id |-> "2", direction |-> "recv"],
         [a |-> "rid", id |-> "3", direction |-> "recv"],
         [a |-> "simulcast_03",
          value |-> [dir |-> "recv", ridToken |-> TRUE, list |-> <<"1", "2", "3">>]] >> }

SimulcastSections ==
    { [type |-> t, lines |-> r \o s] :
        t \in {AUDIO, VIDEO}, r \in RidVariants,
        s \in { <<>>, << [a |-> "ssrc", id |-> 1, attribute |-> "cname"] >> } }

SimulcastDescriptions ==
    { [type |-> "offer", sdp |-> m] : m \in SeqsUpTo(SimulcastSections, MaxMedia) }

(***************************************************************************)
(* Calls of the SDP functions: each is given the description the last call *)
(* returned (sdpDesc); sdpPrev is what that call was given.                *)
(***************************************************************************)
NoSdpOut == [fn |-> "none", status |-> "none"]

SdpCall(fn, r) ==
    /\ sdpCalls < MaxSdpCalls
    /\ sdpOut.status # "threw"
    /\ sdpCalls' = sdpCalls + 1
    /\ sdpPrev' = sdpDesc
    /\ sdpOut' = [fn |-> fn, status |-> r.status]
    /\ sdpDesc' = IF r.status = "returned" THEN r.desc ELSE sdpDesc
    /\ UNCHANGED <<cfgVars, enc, pcVars>>

CallEnsureOrder == SdpCall("ensureCorrectOrderOfSsrcs", ensureCorrectOrderOfSsrcs(sdpDesc))

CallInsertSimulcast ==
    SdpCall("insertUnifiedPlanSimulcastReceive", insertUnifiedPlanSimulcastReceive(sdpDesc))

(***************************************************************************)
(* The peerconnection.  A transceiver is                                   *)
(*   [kind, direction, currentDirection, track, encodings]                 *)
(* kind: receiver.track.kind; track: sender.track, a local track or NoTrack;*)
(* encodings: the encodings of the sender's parameters.                    *)
(***************************************************************************)
MaxTransceivers == 2
MaxPending == 1
MaxTrackIndex == 2

Tracks == {"v1", "v2"}
NoTrack == "none"
NoDirection == "none"
SENDONLY == "sendonly"

Kind(t) == IF t = "a1" THEN AUDIO ELSE VIDEO

Indexes == DOMAIN transceivers

\* Array.prototype.find, given the indexes that match: the first of them, or 0.
FindFirst(matches) ==
    IF matches = {} THEN 0 ELSE CHOOSE i \in matches : \A j \in matches : i <= j

\* find returning the last match (a mutation of FindFirst).
FindLast(matches) ==
    IF matches = {} THEN 0 ELSE CHOOSE i \in matches : \A j \in matches : i >= j

\* Array.prototype.filter, given the indexes that match: those indexes, in order.
RECURSIVE Filter(_)
Filter(matches) ==
    IF matches = {} THEN <<>>
    ELSE <<FindFirst(matches)>> \o Filter(matches \ {FindFirst(matches)})

\* this.pc.getLocalTracks(mediaType)
getLocalTracks(mediaType) == {t \in localTracks : Kind(t) = mediaType}

(***************************************************************************)
(* The outcome of the last operation: what the call did (threw, returned,  *)
(* or returned a promise: rejected, resolved or pending), the error, and   *)
(* the index of the transceiver it selected (0: none).                     *)
(***************************************************************************)
Outcome(op, state, error, tr) == [op |-> op, state |-> state, error |-> error, tr |-> tr]

NoResult == Outcome("none", "none", "none", 0)

\* A promise of the transport in flight: sender.replaceTrack(track) or
\* sender.setParameters(parameters) on transceiver tr, called by operation res.op;
\* promote is the transceiver addTrackUnmute turns to sendrecv afterwards (or 0).
Promise(call, tr, track, encodings, promote, res) ==
    [call |-> call, tr |-> tr, track |-> track, encodings |-> encodings,
     promote |-> promote, res |-> res]

CanDefer == Len(pending) < MaxPending

(***************************************************************************)
(* The transport's attach primitive, RTCPeerConnection.addTrack (addStream *)
(* calls it for each track of the stream): the track goes to the sender of *)
(* the first transceiver of its kind that has no track and does not send,  *)
(* which then sends too; with none, a new sendrecv transceiver is made.    *)
(* A track that a sender has already is an InvalidAccessError, which       *)
(* addStream lets through on Firefox only.                                 *)
(***************************************************************************)
Unused(tr, t) ==
    /\ tr.kind = Kind(t)
    /\ tr.track = NoTrack
    /\ tr.direction \in {RECVONLY, INACTIVE}

NewTransceiver(t, encodings) ==
    [kind |-> Kind(t), direction |-> SENDRECV, currentDirection |-> NoDirection,
     track |-> t, encodings |-> encodings]

PcAddTrackThrows(t) == \E i \in Indexes : transceivers[i].track = t

UnusedFor(t) == {i \in Indexes : Unused(transceivers[i], t)}

PcAddTrack(t) ==
    LET i == FindFirst(UnusedFor(t))
    IN  IF i # 0
        THEN [transceivers EXCEPT
                 ![i].track = t,
                 ![i].direction = IF @ = RECVONLY THEN SENDRECV ELSE SENDONLY]
        ELSE Append(transceivers, NewTransceiver(t, <<>>))

PcAddTrackFits(t) ==
    UnusedFor(t) # {} \/ Len(transceivers) < MaxTransceivers

(***************************************************************************)
(* addTrack                                                                *)
(***************************************************************************)
\* transceiverInit.sendEncodings on every browser (a mutation of SendEncodings).
SendEncodingsAlways(t) == getStreamEncodings(Kind(t) = VIDEO).list

SendEncodings(t) ==
    IF ~isFirefox THEN getStreamEncodings(Kind(t) = VIDEO).list ELSE <<>>

addTrack(t, isInitiator) ==
    /\ IF isInitiator
       THEN /\ Len(transceivers) < MaxTransceivers
            /\ transceivers' = Append(transceivers,
                                      NewTransceiver(t, SendEncodings(t)))
            /\ result' = Outcome("addTrack", "returned", "none", Len(transceivers) + 1)
       ELSE IF PcAddTrackThrows(t)
            THEN /\ result' = Outcome("addTrack", "threw", "InvalidAccessError", 0)
                 /\ UNCHANGED transceivers
            ELSE /\ PcAddTrackFits(t)
                 /\ transceivers' = PcAddTrack(t)
                 /\ result' = Outcome("addTrack", "returned", "none", 0)
    /\ UNCHANGED <<cfgVars, enc, sdpVars, localTracks, pending>>

(***************************************************************************)
(* setEncodings                                                            *)
(***************************************************************************)
\* The senders that carry a track of the kind of t.
SendersOfKind(trs, t) ==
    {i \in DOMAIN trs : trs[i].track # NoTrack /\ Kind(trs[i].track) = Kind(t)}

setEncodings(t) ==
    LET tr == FindFirst(SendersOfKind(transceivers, t))
        res == Outcome("setEncodings", "pending", "none", tr)
    IN  /\ CanDefer
        /\ IF tr = 0
           THEN \* transceiver is undefined: reading .sender of it is a TypeError
                /\ result' = Outcome("setEncodings", "threw", "TypeError", 0)
                /\ UNCHANGED pending
           ELSE /\ pending' = Append(pending,
                        Promise("setParameters", tr, t,
                                getStreamEncodings(Kind(t) = VIDEO).list, 0, res))
                /\ result' = res
        /\ UNCHANGED <<cfgVars, enc, sdpVars, transceivers, localTracks>>

(***************************************************************************)
(* addTrackUnmute                                                          *)
(***************************************************************************)
OfKind(mediaType) == {i \in Indexes : transceivers[i].kind = mediaType}

addTrackUnmute(t, hasStream) ==
    LET tr == FindFirst(OfKind(Kind(t)))
        op == "addTrackUnmute"
    IN  /\ CanDefer
        /\ IF tr = 0
           THEN /\ result' = Outcome(op, "rejected", "not found", 0)
                /\ UNCHANGED <<transceivers, pending>>
           ELSE IF transceivers[tr].direction = RECVONLY
           THEN IF hasStream
                THEN IF PcAddTrackThrows(t) /\ isFirefox
                     THEN /\ result' = Outcome(op, "threw", "InvalidAccessError", tr)
                          /\ UNCHANGED <<transceivers, pending>>
                     ELSE LET after == IF PcAddTrackThrows(t) THEN transceivers
                                       ELSE PcAddTrack(t)
                              sender == FindFirst(SendersOfKind(after, t))
                              res == Outcome(op, "pending", "none", tr)
                          IN  /\ PcAddTrackThrows(t) \/ PcAddTrackFits(t)
                              /\ transceivers' = after
                              /\ IF sender = 0
                                 THEN /\ result' = Outcome(op, "threw", "TypeError", tr)
                                      /\ UNCHANGED pending
                                 ELSE /\ pending' = Append(pending,
                                            Promise("setParameters", sender, t,
                                                    getStreamEncodings(Kind(t) = VIDEO).list,
                                                    tr, res))
                                      /\ result' = res
                ELSE /\ result' = Outcome(op, "resolved", "none", tr)
                     /\ UNCHANGED <<transceivers, pending>>
           ELSE LET res == Outcome(op, "pending", "none", tr)
                IN  /\ pending' = Append(pending, Promise("replaceTrack", tr, t, <<>>, 0, res))
                    /\ result' = res
                    /\ UNCHANGED transceivers
        /\ UNCHANGED <<cfgVars, enc, sdpVars, localTracks>>

(***************************************************************************)
(* removeTrackMute                                                         *)
(***************************************************************************)
Carrying(t) == {i \in Indexes : transceivers[i].track # NoTrack /\ transceivers[i].track = t}

\* The lookup by kind instead of by track id (a mutation of MuteLookup).
MuteLookupByKind(t) == FindFirst(OfKind(Kind(t)))

MuteLookup(t) == FindFirst(Carrying(t))

removeTrackMute(t) ==
    LET tr == MuteLookup(t)
        res == Outcome("removeTrackMute", "pending", "none", tr)
    IN  /\ CanDefer
        /\ IF tr = 0
           THEN /\ result' = Outcome("removeTrackMute", "rejected", "not found", 0)
                /\ UNCHANGED pending
           ELSE /\ pending' = Append(pending, Promise("replaceTrack", tr, NoTrack, <<>>, 0, res))
                /\ result' = res
        /\ UNCHANGED <<cfgVars, enc, sdpVars, transceivers, localTracks>>

(***************************************************************************)
(* replaceTrack.  A source name is "<endpoint>-<letter><index>".           *)
(***************************************************************************)
SourceNames == {[endpoint |-> "ep", letter |-> "v", index |-> n] : n \in 0..MaxTrackIndex}

\* Number(sourceName.split('-')[1].substring(1))
TrackIndexOf(sourceName) == sourceName.index

\* The placeholder transceivers of a kind: recvonly, negotiated inactive.
Placeholders(mediaType) ==
    {i \in OfKind(mediaType) : /\ transceivers[i].direction = RECVONLY
                               /\ transceivers[i].currentDirection = INACTIVE}

\* The lookup without the direction test (a mutation of NewSourceLookup).
NewSourceLookupAnyDirection(mediaType) == FindFirst(OfKind(mediaType))

NewSourceLookup(mediaType) == FindFirst(Placeholders(mediaType))

\* The third rule falling back to the first transceiver of the kind when the
\* index is beyond the list (a mutation of IndexLookup).
IndexLookupWithFallback(mediaType, sourceName) ==
    LET first == FindFirst(OfKind(mediaType))
        trackIndex == IF IsDefined(sourceName) THEN TrackIndexOf(sourceName[1]) ELSE 0
        sending == Filter({i \in OfKind(mediaType) : transceivers[i].direction # RECVONLY})
    IN  IF trackIndex # 0 /\ trackIndex + 1 <= Len(sending)
        THEN sending[trackIndex + 1]
        ELSE first

\* The third rule: the first transceiver of the kind, or the one at trackIndex
\* among those of the kind that are not recvonly.
IndexLookup(mediaType, sourceName) ==
    LET first == FindFirst(OfKind(mediaType))
        trackIndex == IF IsDefined(sourceName) THEN TrackIndexOf(sourceName[1]) ELSE 0
        sending == Filter({i \in OfKind(mediaType) : transceivers[i].direction # RECVONLY})
    IN  IF trackIndex # 0
        THEN IF trackIndex + 1 <= Len(sending) THEN sending[trackIndex + 1] ELSE 0
        ELSE first

\* The transceiver replaceTrack selects (0: none).
ReplaceTarget(oldTrack, newTrack, multiStream, oldMuted, newConference, sourceName) ==
    LET mediaType == IF newTrack # NoTrack THEN Kind(newTrack)
                     ELSE IF oldTrack # NoTrack THEN Kind(oldTrack)
                     ELSE "undefined"
        isNewLocalSource == /\ multiStream
                            /\ getLocalTracks(mediaType) # {}
                            /\ oldTrack = NoTrack
                            /\ newTrack # NoTrack
                            /\ ~newConference
        rule == IF oldTrack # NoTrack /\ ~oldMuted THEN "old"
                ELSE IF isNewLocalSource THEN "newLocalSource"
                ELSE "index"
    IN  IF rule = "old" THEN FindFirst(Carrying(oldTrack))
        ELSE IF rule = "newLocalSource" THEN NewSourceLookup(mediaType)
        ELSE IndexLookup(mediaType, sourceName)

replaceTrack(oldTrack, newTrack, multiStream, oldMuted, newConference, sourceName) ==
    LET tr == ReplaceTarget(oldTrack, newTrack, multiStream, oldMuted, newConference,
                            sourceName)
        res == Outcome("replaceTrack", "pending", "none", tr)
    IN  /\ CanDefer
        /\ IF tr = 0
           THEN /\ result' = Outcome("replaceTrack", "rejected", "replace track failed", 0)
                /\ UNCHANGED pending
           ELSE /\ pending' = Append(pending, Promise("replaceTrack", tr, newTrack, <<>>, 0, res))
                /\ result' = res
        /\ UNCHANGED <<cfgVars, enc, sdpVars, transceivers, localTracks>>

(***************************************************************************)
(* setMediaTransferActive                                                  *)
(***************************************************************************)
setMediaTransferActive(mediaType, active) ==
    /\ transceivers' =
          [i \in Indexes |->
              IF i \in OfKind(mediaType)
              THEN [transceivers[i] EXCEPT !.direction =
                       IF active
                       THEN IF i = FindFirst(OfKind(mediaType))
                               /\ getLocalTracks(mediaType) # {}
                            THEN SENDRECV
                            ELSE RECVONLY
                       ELSE INACTIVE]
              ELSE transceivers[i]]
    /\ result' = Outcome("setMediaTransferActive", "returned", "none", 0)
    /\ UNCHANGED <<cfgVars, enc, sdpVars, localTracks, pending>>

(***************************************************************************)
(* The transport settles a promise in flight.                              *)
(***************************************************************************)
RemoveAt(s, k) == SubSeq(s, 1, k - 1) \o SubSeq(s, k + 1, Len(s))

\* sender.replaceTrack resolves: the sender has the track.
SettleReplaceTrack(k) ==
    /\ k \in DOMAIN pending
    /\ pending[k].call = "replaceTrack"
    /\ transceivers' = [transceivers EXCEPT ![pending[k].tr].track = pending[k].track]
    /\ result' = [pending[k].res EXCEPT !.state = "resolved"]
    /\ pending' = RemoveAt(pending, k)
    /\ UNCHANGED <<cfgVars, enc, sdpVars, localTracks>>

\* The callback of addTrackUnmute without the direction assignment (a
\* mutation of SettleSetParameters).
SettleWithoutPromotion(k) ==
    /\ k \in DOMAIN pending
    /\ pending[k].call = "setParameters"
    /\ transceivers' = [transceivers EXCEPT ![pending[k].tr].encodings = pending[k].encodings]
    /\ localTracks' = IF pending[k].promote # 0 THEN localTracks \cup {pending[k].track}
                      ELSE localTracks
    /\ result' = [pending[k].res EXCEPT !.state = "resolved"]
    /\ pending' = RemoveAt(pending, k)
    /\ UNCHANGED <<cfgVars, enc, sdpVars>>

\* sender.setParameters resolves: the sender has the encodings; then the
\* callback of addTrackUnmute runs.
SettleSetParameters(k) ==
    /\ k \in DOMAIN pending
    /\ pending[k].call = "setParameters"
    /\ LET p == pending[k]
           committed == [transceivers EXCEPT ![p.tr].encodings = p.encodings]
       IN  IF p.promote # 0
           THEN /\ localTracks' = localTracks \cup {p.track}
                /\ transceivers' = [committed EXCEPT ![p.promote].direction = SENDRECV]
           ELSE /\ transceivers' = committed
                /\ UNCHANGED localTracks
    /\ result' = [pending[k].res EXCEPT !.state = "resolved"]
    /\ pending' = RemoveAt(pending, k)
    /\ UNCHANGED <<cfgVars, enc, sdpVars>>

\* The transport rejects the promise: nothing is changed.
SettleRejected(k) ==
    /\ k \in DOMAIN pending
    /\ result' = [pending[k].res EXCEPT !.state = "rejected", !.error = "transport"]
    /\ pending' = RemoveAt(pending, k)
    /\ UNCHANGED <<cfgVars, enc, sdpVars, transceivers, localTracks>>

(***************************************************************************)
(* What happens to the peerconnection outside the class: the remote side   *)
(* adds a media section (a recvonly transceiver), a negotiation completes  *)
(* on a transceiver, and the peerconnection keeps its localTracks map.     *)
(***************************************************************************)
RemoteAddsMedia(mediaType) ==
    /\ Len(transceivers) < MaxTransceivers
    /\ transceivers' = Append(transceivers,
                              [kind |-> mediaType, direction |-> RECVONLY,
                               currentDirection |-> NoDirection, track |-> NoTrack,
                               encodings |-> <<>>])
    /\ UNCHANGED <<cfgVars, enc, sdpVars, localTracks, pending, result>>

\* The negotiated direction: the transceiver's own, or inactive when the
\* remote side neither sends nor receives on that section.
Negotiate(i, remoteActive) ==
    /\ i \in Indexes
    /\ transceivers' = [transceivers EXCEPT ![i].currentDirection =
                           IF remoteActive THEN transceivers[i].direction ELSE INACTIVE]
    /\ UNCHANGED <<cfgVars, enc, sdpVars, localTracks, pending, result>>

LocalTracksSet(t) ==
    /\ localTracks' = localTracks \cup {t}
    /\ UNCHANGED <<cfgVars, enc, sdpVars, transceivers, pending, result>>

LocalTracksDelete(t) ==
    /\ localTracks' = localTracks \ {t}
    /\ UNCHANGED <<cfgVars, enc, sdpVars, transceivers, pending, result>>

(***************************************************************************)
(* Specifications.                                                         *)
(***************************************************************************)
EncIdle == enc = NoEnc

SdpIdle(descriptions) ==
    /\ sdpDesc \in descriptions
    /\ sdpPrev = sdpDesc
    /\ sdpOut = NoSdpOut
    /\ sdpCalls = 0

PcIdle ==
    /\ transceivers = <<>>
    /\ localTracks = {}
    /\ pending = <<>>
    /\ result = NoResult

EmptyDescriptions == {[type |-> "offer", sdp |-> <<>>]}

\* Browsers that differ in the family only.
FamilyBrowsers(families) ==
    {b \in Browsers : /\ b.family \in families
                      /\ ~b.usesSdpMungingForSimulcast
                      /\ b.isVersionGreaterThan71}

DefaultBitrates == {[low |-> 200000, standard |-> 500000, high |-> 1500000]}

\* The calls of the operations, with their inputs.
CallAddTrack == \E t \in Tracks, isInitiator \in BOOLEAN : addTrack(t, isInitiator)

CallAddTrackUnmute == \E t \in Tracks, hasStream \in BOOLEAN : addTrackUnmute(t, hasStream)

CallRemoveTrackMute == \E t \in Tracks : removeTrackMute(t)

CallReplaceTrack ==
    \E oldTrack \in Tracks \cup {NoTrack}, newTrack \in Tracks \cup {NoTrack},
       multiStream \in BOOLEAN, oldMuted \in BOOLEAN, newConference \in BOOLEAN,
       sourceName \in {Undefined} \cup {Some(n) : n \in SourceNames} :
       /\ oldTrack # NoTrack /\ newTrack # NoTrack => Kind(oldTrack) = Kind(newTrack)
       /\ oldTrack = NoTrack => ~oldMuted
       /\ newTrack = NoTrack => ~newConference
       \* newTrack.conference is read only at the end of the && chain, and the
       \* source name only in the last branch.
       /\ newConference => multiStream /\ oldTrack = NoTrack
       /\ oldTrack # NoTrack /\ ~oldMuted => sourceName = Undefined
       /\ replaceTrack(oldTrack, newTrack, multiStream, oldMuted, newConference, sourceName)

CallSetEncodings == \E t \in Tracks : setEncodings(t)

CallSetMediaTransferActive ==
    \E mediaType \in {AUDIO, VIDEO}, active \in BOOLEAN :
       setMediaTransferActive(mediaType, active)

\* The transport settles a promise.
Settle ==
    \E k \in 1..MaxPending :
       SettleReplaceTrack(k) \/ SettleSetParameters(k) \/ SettleRejected(k)

RemoteAdds == \E mediaType \in {AUDIO, VIDEO} : RemoteAddsMedia(mediaType)

KeepLocalTracks == \E t \in Tracks : LocalTracksSet(t) \/ LocalTracksDelete(t)

\* One connection on a Chromium browser, from its construction: every
\* operation of the class, the transport and the peerconnection's own
\* bookkeeping; no negotiation completes.
Init ==
    /\ Constructor(FamilyBrowsers({"chromium"}), {TRUE}, DefaultBitrates)
    /\ EncIdle
    /\ SdpIdle(EmptyDescriptions)
    /\ PcIdle

Next ==
    \/ CallAddTrack
    \/ CallAddTrackUnmute
    \/ CallRemoveTrackMute
    \/ CallReplaceTrack
    \/ CallSetEncodings
    \/ CallSetMediaTransferActive
    \/ Settle
    \/ RemoteAdds
    \/ KeepLocalTracks

Spec == Init /\ [][Next]_vars

\* One connection with negotiations completing, its operations called one at
\* a time (a call waits for the promise of the call before it): the
\* operations that look at the negotiated direction or set what it is
\* compared with.
NextNegotiated ==
    \/ pending = <<>> /\ CallReplaceTrack
    \/ pending = <<>> /\ \E active \in BOOLEAN : setMediaTransferActive(VIDEO, active)
    \/ \E k \in 1..MaxPending : SettleReplaceTrack(k)
    \/ \E k \in 1..MaxPending : SettleRejected(k)
    \/ RemoteAdds
    \/ \E i \in 1..MaxTransceivers, remoteActive \in BOOLEAN : Negotiate(i, remoteActive)
    \/ KeepLocalTracks

SpecNegotiated == Init /\ [][NextNegotiated]_vars

\* addTrack on every browser family, with and without simulcast.
InitAddTrack ==
    /\ Constructor(FamilyBrowsers(Families), BOOLEAN, VideoBitratesChoices)
    /\ EncIdle
    /\ SdpIdle(EmptyDescriptions)
    /\ PcIdle

NextAddTrack == CallAddTrack \/ RemoteAdds \/ CallSetMediaTransferActive

SpecAddTrack == InitAddTrack /\ [][NextAddTrack]_vars

\* The encoding policy functions, on every browser family.
InitEncodings ==
    /\ Constructor(FamilyBrowsers(Families), {TRUE}, VideoBitratesChoices)
    /\ EncIdle
    /\ SdpIdle(EmptyDescriptions)
    /\ PcIdle

NextEncodings == CallActiveState \/ CallBitrates

SpecEncodings == InitEncodings /\ [][NextEncodings]_vars

\* ensureCorrectOrderOfSsrcs, applied up to MaxSdpCalls times in a row.
InitSsrcOrder ==
    /\ Constructor(FamilyBrowsers({"chromium"}), {TRUE}, DefaultBitrates)
    /\ EncIdle
    /\ SdpIdle(SsrcDescriptions)
    /\ PcIdle

NextSsrcOrder == CallEnsureOrder

SpecSsrcOrder == InitSsrcOrder /\ [][NextSsrcOrder]_vars

\* insertUnifiedPlanSimulcastReceive, applied up to MaxSdpCalls times in a row.
InitSimulcast ==
    /\ Constructor({b \in Browsers : b.family \in {"firefox", "chromium"}}, {TRUE}, DefaultBitrates)
    /\ EncIdle
    /\ SdpIdle(SimulcastDescriptions)
    /\ PcIdle

NextSimulcast == CallInsertSimulcast

SpecSimulcast == InitSimulcast /\ [][NextSimulcast]_vars

\* Mute and unmute of one local track, called one at a time, on a connection
\* to which tracks are added, whose remote side adds sections and whose media
\* transfer is switched: the other track is added and never muted.
RoundTripTrack == "v2"

CallMute == pending = <<>> /\ removeTrackMute(RoundTripTrack)

CallUnmute == pending = <<>> /\ \E hasStream \in BOOLEAN : addTrackUnmute(RoundTripTrack, hasStream)

NextRoundTrip ==
    \/ pending = <<>> /\ CallAddTrack
    \/ CallMute
    \/ CallUnmute
    \/ pending = <<>> /\ CallSetMediaTransferActive
    \/ Settle
    \/ RemoteAdds
    \/ KeepLocalTracks

SpecRoundTrip == Init /\ [][NextRoundTrip]_vars

(***************************************************************************)
(* Properties of the encoding policy functions (SpecEncodings).            *)
(***************************************************************************)
Scales ==
    [i \in DOMAIN localStreamEncodingsConfig |->
        localStreamEncodingsConfig[i].scaleResolutionDownBy]

\* C2: for a camera track, whatever the capture height and the requested
\* height, a layer is active iff captureHeight / scale <= requestedHeight,
\* except that the layer of scale 4 is active whenever requestedHeight > 0;
\* so 720 with scales [4, 2, 1] and 180 requested gives [true, false, false],
\* and a requested height of 0 never gives [true, true, true].
C2_CameraActiveFlags ==
    enc.fn = "calculateEncodingsActiveState" /\ enc.in.videoType = CAMERA =>
        /\ DOMAIN enc.out = DOMAIN localStreamEncodingsConfig
        /\ \A i \in DOMAIN enc.out :
              enc.out[i] = IF Scales[i] = 4 /\ enc.in.newHeight > 0
                           THEN TRUE
                           ELSE enc.in.height <= enc.in.newHeight * Scales[i]
        /\ (enc.in.height = 720 /\ Scales = <<4, 2, 1>> /\ enc.in.newHeight = 180
               => enc.out = <<TRUE, FALSE, FALSE>>)
        /\ (enc.in.newHeight = 0 => enc.out # <<TRUE, TRUE, TRUE>>)

\* The policy was asked about a 720 camera track with 180 requested, on
\* scales [4, 2, 1]: only the forced low layer is on.
C2_Witness ==
    /\ enc.fn = "calculateEncodingsActiveState"
    /\ enc.in.videoType = CAMERA
    /\ enc.in.height = 720
    /\ enc.in.newHeight = 180
    /\ Scales = <<4, 2, 1>>
    /\ enc.out = <<TRUE, FALSE, FALSE>>

\* The presenter overlay: a second stream composited over the captured one.
PresenterOverlay ==
    /\ enc.in.originalStreamId # Undefined
    /\ enc.in.originalStreamId[1] # enc.in.streamId

\* The bitrates calculateEncodingsBitrates is to return, with the given flat
\* rate for low fps screen sharing without a presenter.
BitratesWith(desktopRate) ==
    [i \in DOMAIN localStreamEncodingsConfig |->
        IF enc.in.isSharingLowFpsScreen /\ ~isWebKitBased
        THEN IF PresenterOverlay THEN Some(HD_BITRATE) ELSE Some(desktopRate)
        ELSE IF enc.in.videoType = DESKTOP /\ isChromiumBased /\ ~enc.in.usesUnifiedPlan
             THEN Undefined
             ELSE localStreamEncodingsConfig[i].maxBitrate]

Count(lines, l) == Len(SelectSeq(lines, LAMBDA x : x = l))

HasSsrcGroup(section) == LinesOf(section.lines, "ssrc-group") # <<>>

\* C3: a non-audio section with at least one ssrc-group has, after
\* ensureCorrectOrderOfSsrcs, the same multiset of ssrc entries as before:
\* none lost, none duplicated.
C3_SameSsrcEntries ==
    sdpOut.fn = "ensureCorrectOrderOfSsrcs" /\ sdpOut.status = "returned" =>
        \A i \in DOMAIN sdpPrev.sdp :
            sdpPrev.sdp[i].type # AUDIO /\ HasSsrcGroup(sdpPrev.sdp[i]) =>
                \A l \in SsrcLines :
                    Count(sdpDesc.sdp[i].lines, l) = Count(sdpPrev.sdp[i].lines, l)

\* C4: ensureCorrectOrderOfSsrcs applied to its own output returns a
\* description identical to that output.
C4_SsrcOrderIdempotent ==
    sdpOut.fn = "ensureCorrectOrderOfSsrcs" /\ sdpCalls = 2 =>
        sdpOut.status = "returned" /\ sdpDesc = sdpPrev

(***************************************************************************)
(* Properties of insertUnifiedPlanSimulcastReceive (SpecSimulcast).        *)
(***************************************************************************)
IsFirstVideo(sdp, i) ==
    /\ sdp[i].type = VIDEO
    /\ \A j \in 1..(i - 1) : sdp[j].type # VIDEO

HasRidOrSimulcast(section) ==
    \E k \in DOMAIN section.lines :
        section.lines[k].a \in {"rid", "simulcast", "simulcast_03"}

\* C5: without SDP munging, a first video section that has no rid and no
\* simulcast attribute comes out with exactly the rids "1", "2", "3" in that
\* order, all recv, and one simulcast attribute naming these three as recv;
\* with SDP munging the description comes back unchanged.
C5_SimulcastReceive ==
    sdpOut.fn = "insertUnifiedPlanSimulcastReceive" /\ sdpOut.status = "returned" =>
        IF browser.usesSdpMungingForSimulcast
        THEN sdpDesc = sdpPrev
        ELSE \A i \in DOMAIN sdpPrev.sdp :
                IsFirstVideo(sdpPrev.sdp, i) /\ ~HasRidOrSimulcast(sdpPrev.sdp[i]) =>
                    /\ LinesOf(sdpDesc.sdp[i].lines, "rid") =
                          << [a |-> "rid", id |-> "1", direction |-> "recv"],
                             [a |-> "rid", id |-> "2", direction |-> "recv"],
                             [a |-> "rid", id |-> "3", direction |-> "recv"] >>
                    /\ LinesOf(sdpDesc.sdp[i].lines, "simulcast") = <<>>
                    /\ Len(LinesOf(sdpDesc.sdp[i].lines, "simulcast_03")) = 1
                    /\ LinesOf(sdpDesc.sdp[i].lines, "simulcast_03")[1].value.dir = "recv"
                    /\ LinesOf(sdpDesc.sdp[i].lines, "simulcast_03")[1].value.list =
                          <<"1", "2", "3">>

\* Without SDP munging, a description of an audio section and a video section
\* without rid and simulcast attributes went in and the video section came
\* out with three rids.
C5_Witness ==
    /\ sdpOut.fn = "insertUnifiedPlanSimulcastReceive"
    /\ sdpOut.status = "returned"
    /\ sdpCalls = 1
    /\ ~browser.usesSdpMungingForSimulcast
    /\ Len(sdpPrev.sdp) = 2
    /\ sdpPrev.sdp[1].type = AUDIO
    /\ IsFirstVideo(sdpPrev.sdp, 2)
    /\ ~HasRidOrSimulcast(sdpPrev.sdp[2])
    /\ Len(LinesOf(sdpDesc.sdp[2].lines, "rid")) = 3

\* C6: insertUnifiedPlanSimulcastReceive applied to its own output changes
\* nothing, whatever the video sections of the description and their rid and
\* simulcast attributes: the second application is a no-op.
C6_SimulcastIdempotent ==
    sdpOut.fn = "insertUnifiedPlanSimulcastReceive" /\ sdpCalls = 2 =>
        sdpOut.status = "returned" /\ sdpDesc = sdpPrev

(***************************************************************************)
(* Properties of the transceiver operations.                               *)
(***************************************************************************)
\* C1: replaceTrack with no old track and a new track that is a new local
\* source of a kind that has local tracks already, in multi-stream mode,
\* selects only a transceiver of the kind that is recvonly and negotiated
\* inactive, and hands the new track to that transceiver's sender: never to
\* the sender of a sendrecv transceiver (SpecNegotiated).
C1_NewSourcePlaceholder ==
    [][\A newTrack \in Tracks,
          sourceName \in {Undefined} \cup {Some(n) : n \in SourceNames} :
          (/\ result'.op = "replaceTrack"
           /\ result'.tr # 0
           /\ getLocalTracks(Kind(newTrack)) # {}
           /\ replaceTrack(NoTrack, newTrack, TRUE, FALSE, FALSE, sourceName))
          => /\ transceivers[result'.tr].kind = Kind(newTrack)
             /\ transceivers[result'.tr].direction = RECVONLY
             /\ transceivers[result'.tr].currentDirection = INACTIVE
             /\ transceivers[result'.tr].direction # SENDRECV
             /\ pending' = Append(pending,
                                  Promise("replaceTrack", result'.tr, newTrack, <<>>, 0,
                                          result'))]_vars

\* The first video transceiver sends v1; the second is a placeholder; v2, a
\* new source, was given to replaceTrack, which took the second.
C1_Witness ==
    /\ Len(transceivers) = 2
    /\ transceivers[1].kind = VIDEO
    /\ transceivers[1].direction = SENDRECV
    /\ transceivers[1].track = "v1"
    /\ transceivers[2].kind = VIDEO
    /\ transceivers[2].direction = RECVONLY
    /\ transceivers[2].currentDirection = INACTIVE
    /\ localTracks = {"v1"}
    /\ result = Outcome("replaceTrack", "pending", "none", 2)
    /\ Len(pending) = 1
    /\ pending[1].track = "v2"
    /\ pending[1].tr = 2

\* The send encodings of a simulcast video transceiver off Firefox.
SimulcastSendEncodings ==
    << [active |-> TRUE, maxBitrate |-> Some(videoBitrates.low),
        rid |-> "1", scaleResolutionDownBy |-> 4],
       [active |-> TRUE, maxBitrate |-> Some(videoBitrates.standard),
        rid |-> "2", scaleResolutionDownBy |-> 2],
       [active |-> TRUE, maxBitrate |-> Some(videoBitrates.high),
        rid |-> "3", scaleResolutionDownBy |-> 1] >>

\* C8: addTrack of a video track as initiator with simulcast on makes one new
\* transceiver, sendrecv, with the track; off Firefox it has exactly three
\* send encodings, rids "1", "2", "3", scales [4, 2, 1], bitrates [low,
\* standard, high], all active; on Firefox its send encodings are empty
\* (SpecAddTrack).
C8_InitiatorSendEncodings ==
    [][\A t \in Tracks :
          Kind(t) = VIDEO /\ isSimulcastOn /\ addTrack(t, TRUE)
          => /\ Len(transceivers') = Len(transceivers) + 1
             /\ SubSeq(transceivers', 1, Len(transceivers)) = transceivers
             /\ transceivers'[Len(transceivers')].kind = VIDEO
             /\ transceivers'[Len(transceivers')].direction = SENDRECV
             /\ transceivers'[Len(transceivers')].track = t
             /\ transceivers'[Len(transceivers')].encodings =
                   IF isFirefox THEN <<>> ELSE SimulcastSendEncodings]_vars

\* On Chromium with simulcast on, addTrack as initiator made the first
\* transceiver of the connection, with the three encodings.
C8_Witness ==
    /\ isChromiumBased
    /\ isSimulcastOn
    /\ result = Outcome("addTrack", "returned", "none", 1)
    /\ Len(transceivers) = 1
    /\ transceivers[1].direction = SENDRECV
    /\ transceivers[1].track = "v1"
    /\ transceivers[1].encodings = SimulcastSendEncodings

\* C9: removeTrackMute for a track that no sender carries (senders without a
\* track included) returns a promise rejected with 'not found', throws
\* nothing, and leaves the transceivers (directions and sender tracks) as
\* they were, with nothing asked of the transport (Spec).
C9_MuteNotFound ==
    [][\A t \in Tracks :
          (/\ result'.op = "removeTrackMute"
           /\ \A i \in Indexes : transceivers[i].track # t
           /\ removeTrackMute(t))
          => /\ result' = Outcome("removeTrackMute", "rejected", "not found", 0)
             /\ transceivers' = transceivers
             /\ pending' = pending]_vars

\* One sender has no track, the other carries a track, and a removeTrackMute
\* was rejected with 'not found'.
C9_Witness ==
    /\ result = Outcome("removeTrackMute", "rejected", "not found", 0)
    /\ Len(transceivers) = 2
    /\ \E i \in Indexes : transceivers[i].track = NoTrack
    /\ \E i \in Indexes : transceivers[i].track # NoTrack
    /\ pending = <<>>

\* C10: addTrackUnmute, removeTrackMute, replaceTrack and setEncodings, when
\* no transceiver matches their lookup, end in a rejected promise and never
\* in an exception thrown to the caller (Spec).
C10_LookupFailureRejects ==
    /\ result.op \in {"addTrackUnmute", "removeTrackMute", "replaceTrack", "setEncodings"}
    /\ result.tr = 0
    => result.state = "rejected"

\* What addTrackUnmute promises of the receive-only case, in the state after
\* the step: a sender has the track, a sender of the kind has the encodings
\* of the policy, and transceiver tr is sendrecv.
UnmutedAfter(after, t, tr) ==
    /\ \E i \in DOMAIN after : after[i].track = t
    /\ \E i \in DOMAIN after : /\ after[i].track # NoTrack
                               /\ Kind(after[i].track) = Kind(t)
                               /\ after[i].encodings = getStreamEncodings(Kind(t) = VIDEO).list
    /\ tr \in DOMAIN after
    /\ after[tr].direction = SENDRECV

\* The other case: the track goes to the sender of tr, whose direction and
\* everything else stay.
SubstitutedAfter(k) ==
    /\ transceivers' = [transceivers EXCEPT ![pending[k].tr].track = pending[k].track]
    /\ transceivers'[pending[k].tr].direction = transceivers[pending[k].tr].direction

\* The steps of an addTrackUnmute whose transceiver is not receive-only, and
\* the settlement of one whose transceiver was.
UnmuteOtherSteps ==
    /\ \A t \in Tracks, hasStream \in BOOLEAN :
          (/\ result'.op = "addTrackUnmute"
           /\ FindFirst(OfKind(Kind(t))) # 0
           /\ transceivers[FindFirst(OfKind(Kind(t)))].direction # RECVONLY
           /\ addTrackUnmute(t, hasStream))
          => /\ transceivers' = transceivers
             /\ pending' = Append(pending,
                                  Promise("replaceTrack", FindFirst(OfKind(Kind(t))), t,
                                          <<>>, 0, result'))
    /\ \A k \in DOMAIN pending :
          /\ (pending[k].res.op = "addTrackUnmute" /\ SettleReplaceTrack(k))
                => SubstitutedAfter(k)
          /\ (pending[k].res.op = "addTrackUnmute" /\ SettleSetParameters(k))
                => /\ transceivers'[pending[k].tr].encodings = pending[k].encodings
                   /\ transceivers'[pending[k].res.tr].direction = SENDRECV
                   /\ pending[k].track \in localTracks'

\* C11 (as stated): whenever addTrackUnmute finds the first transceiver of the
\* kind receive-only and its promise resolves, the track's stream is bound,
\* the encodings of the policy are applied and that transceiver is sendrecv;
\* when the transceiver is not receive-only the track is substituted on its
\* sender and the direction stays (Spec).
C11_UnmuteAsStated ==
    [][/\ UnmuteOtherSteps
       /\ \A t \in Tracks, hasStream \in BOOLEAN :
             (/\ result'.op = "addTrackUnmute"
              /\ result'.state = "resolved"
              /\ FindFirst(OfKind(Kind(t))) # 0
              /\ transceivers[FindFirst(OfKind(Kind(t)))].direction = RECVONLY
              /\ addTrackUnmute(t, hasStream))
             => UnmutedAfter(transceivers', t, FindFirst(OfKind(Kind(t))))]_vars

\* C11 (amended): as stated when the track has an original stream; for a
\* track without one, addTrackUnmute on a receive-only transceiver resolves
\* at once with nothing bound, nothing applied and the direction as it was.
C11_UnmuteWithStream ==
    [][/\ UnmuteOtherSteps
       /\ \A t \in Tracks, hasStream \in BOOLEAN :
             (/\ result'.op = "addTrackUnmute"
              /\ FindFirst(OfKind(Kind(t))) # 0
              /\ transceivers[FindFirst(OfKind(Kind(t)))].direction = RECVONLY
              /\ addTrackUnmute(t, hasStream))
             => IF hasStream
                THEN /\ result'.state = "pending"
                     /\ \E i \in DOMAIN transceivers' : transceivers'[i].track = t
                     /\ Len(pending') = Len(pending) + 1
                     /\ pending'[Len(pending')].call = "setParameters"
                     /\ pending'[Len(pending')].promote = FindFirst(OfKind(Kind(t)))
                ELSE /\ result'.state = "resolved"
                     /\ transceivers' = transceivers
                     /\ pending' = pending
                     /\ localTracks' = localTracks]_vars

\* A session that started muted: the one video transceiver was receive-only,
\* addTrackUnmute of v1 resolved, and it is sendrecv with v1 and the encodings.
C11_Witness ==
    /\ result = Outcome("addTrackUnmute", "resolved", "none", 1)
    /\ pending = <<>>
    /\ Len(transceivers) = 1
    /\ transceivers[1].kind = VIDEO
    /\ transceivers[1].direction = SENDRECV
    /\ transceivers[1].track = "v1"
    /\ transceivers[1].encodings = localStreamEncodingsConfig
    /\ localTracks = {"v1"}

\* C12: after setMediaTransferActive(kind, true) the transceivers of the kind
\* that hold a local track are sendrecv and the others of the kind recvonly;
\* after setMediaTransferActive(kind, false) all of the kind are inactive;
\* the transceivers of the other kind keep their direction.  Stated for the
\* states where pc.localTracks holds just the tracks the senders carry (Spec).
C12_TransferActiveDirections ==
    [][\A mediaType \in {AUDIO, VIDEO}, active \in BOOLEAN :
          (/\ result'.op = "setMediaTransferActive"
           /\ localTracks = {transceivers[i].track : i \in Indexes} \ {NoTrack}
           /\ setMediaTransferActive(mediaType, active))
          => /\ DOMAIN transceivers' = DOMAIN transceivers
             /\ \A i \in Indexes :
                   transceivers'[i].direction =
                      IF transceivers[i].kind # mediaType THEN transceivers[i].direction
                      ELSE IF ~active THEN INACTIVE
                      ELSE IF transceivers[i].track \in localTracks THEN SENDRECV
                      ELSE RECVONLY]_vars

\* The inputs of a replaceTrack call: those of CallReplaceTrack.
ReplaceInputs ==
    {in \in [oldTrack : Tracks \cup {NoTrack}, newTrack : Tracks \cup {NoTrack},
             multiStream : BOOLEAN, oldMuted : BOOLEAN, newConference : BOOLEAN,
             sourceName : {Undefined} \cup {Some(n) : n \in SourceNames}] :
        /\ in.oldTrack # NoTrack /\ in.newTrack # NoTrack
              => Kind(in.oldTrack) = Kind(in.newTrack)
        /\ in.oldTrack = NoTrack => ~in.oldMuted
        /\ in.newTrack = NoTrack => ~in.newConference
        /\ in.newConference => in.multiStream /\ in.oldTrack = NoTrack
        /\ in.oldTrack # NoTrack /\ ~in.oldMuted => in.sourceName = Undefined}

ReplaceStep(in) ==
    replaceTrack(in.oldTrack, in.newTrack, in.multiStream, in.oldMuted,
                 in.newConference, in.sourceName)

ReplaceKind(in) ==
    IF in.newTrack # NoTrack THEN Kind(in.newTrack)
    ELSE IF in.oldTrack # NoTrack THEN Kind(in.oldTrack)
    ELSE "undefined"

\* Which of the three selection rules a call falls under.
ReplaceRule(in) ==
    IF in.oldTrack # NoTrack /\ ~in.oldMuted THEN 1
    ELSE IF /\ in.multiStream
            /\ getLocalTracks(ReplaceKind(in)) # {}
            /\ in.oldTrack = NoTrack
            /\ in.newTrack # NoTrack
            /\ ~in.newConference
         THEN 2
         ELSE 3

\* The transceivers of a kind that are not recvonly.
NotRecvonly(mediaType) ==
    {i \in Indexes : transceivers[i].kind = mediaType /\ transceivers[i].direction # RECVONLY}

\* No rule resolves a transceiver for the call.
NoRuleResolves(in) ==
    \/ ReplaceRule(in) = 1 /\ \A i \in Indexes : transceivers[i].track # in.oldTrack
    \/ /\ ReplaceRule(in) = 2
       /\ \A i \in Indexes : ~(/\ transceivers[i].kind = ReplaceKind(in)
                              /\ transceivers[i].direction = RECVONLY
                              /\ transceivers[i].currentDirection = INACTIVE)
    \/ /\ ReplaceRule(in) = 3
       /\ IF in.sourceName # Undefined /\ in.sourceName[1].index > 0
          THEN in.sourceName[1].index >= Cardinality(NotRecvonly(ReplaceKind(in)))
          ELSE \A i \in Indexes : transceivers[i].kind # ReplaceKind(in)

\* The transceiver the code selects for a call.
ReplaceSelects(in) ==
    ReplaceTarget(in.oldTrack, in.newTrack, in.multiStream, in.oldMuted,
                  in.newConference, in.sourceName)

\* The calls in multi-stream mode whose tracks are neither muted nor part of
\* a conference: each of the three rules applies to some of them.
ReplaceInputsUnmuted ==
    {in \in ReplaceInputs : in.multiStream /\ ~in.oldMuted /\ ~in.newConference}

\* A replaceTrack call has returned a rejected promise.
ReplaceRejectedStep ==
    /\ result'.op = "replaceTrack"
    /\ result'.state = "rejected"
    /\ result' # result
    /\ Len(pending') = Len(pending)

\* A replaceTrack call has handed a track to the transport.
ReplaceDeferredStep ==
    /\ result'.op = "replaceTrack"
    /\ Len(pending') > Len(pending)

C13_Resolved ==
    /\ result = Outcome("replaceTrack", "resolved", "none", 2)
    /\ transceivers[2].track = "v2"

\* The active transceivers of the kind of a local source whose sender carries it.
ActiveCarrying(t) ==
    {i \in Indexes : /\ transceivers[i].kind = Kind(t)
                     /\ transceivers[i].track = t
                     /\ transceivers[i].direction \notin {RECVONLY, INACTIVE}}

\* C14: when no operation is in flight, each local source is carried by the
\* sender of at most one active transceiver (neither recvonly nor inactive)
\* of its kind (Spec).
C14_OneActivePerSource ==
    pending = <<>> => \A t \in Tracks : Cardinality(ActiveCarrying(t)) <= 1

\* The rids of the configured layers, in order.
ConfigRids == [i \in DOMAIN localStreamEncodingsConfig |-> localStreamEncodingsConfig[i].rid]

\* Highest spatial resolution (smallest scale factor) first.
HighestFirst(scales) == \A i, j \in DOMAIN scales : i < j => scales[i] < scales[j]

LowestFirst(scales) == \A i, j \in DOMAIN scales : i < j => scales[i] > scales[j]

\* C15 as stated: on every browser and in every state of a connection the
\* configuration has 3 layers with the rids "1", "2", "3" in that order,
\* ordered from the highest spatial resolution to the lowest (SpecAddTrack).
C15_LayersHighestFirst ==
    /\ Len(localStreamEncodingsConfig) = 3
    /\ ConfigRids = <<"1", "2", "3">>
    /\ HighestFirst(Scales)

\* C15: on every browser and in every state of a connection the configuration
\* has 3 layers with the rids "1", "2", "3" in that order; the layers go from
\* the highest spatial resolution to the lowest on Firefox, and from the
\* lowest to the highest on every other browser (SpecAddTrack).
C15_LayersPerBrowser ==
    /\ Len(localStreamEncodingsConfig) = 3
    /\ ConfigRids = <<"1", "2", "3">>
    /\ IF isFirefox THEN HighestFirst(Scales) ELSE LowestFirst(Scales)

\* A connection on Firefox that has added a track and switched media transfer:
\* the configuration is still the one of the constructor.
C15_Witness ==
    /\ isFirefox
    /\ result.op = "setMediaTransferActive"
    /\ \E i \in Indexes : transceivers[i].track # NoTrack
    /\ Scales = <<1, 2, 4>>

\* C16: neither SDP function fails on a shape mismatch: a call of
\* ensureCorrectOrderOfSsrcs or of insertUnifiedPlanSimulcastReceive returns a
\* description, whatever sections the description has (SpecSsrcOrder: a video
\* section with ssrc-groups and no ssrc lines; SpecSimulcast: no video section).
C16_NoFailureOnShapeMismatch ==
    sdpOut.fn \in {"ensureCorrectOrderOfSsrcs", "insertUnifiedPlanSimulcastReceive"}
        => sdpOut.status = "returned"

\* The layers a result of calculateEncodingsActiveState has active.
ActiveLayers == {i \in DOMAIN enc.out : enc.out[i]}

\* C17: for a desktop track calculateEncodingsActiveState has every layer
\* active, except that with low fps screen sharing, in unified plan and off
\* WebKit, the layer of scale factor 1 is the only active one (in either
\* order of the layers); on WebKit every layer is active; for a camera track
\* the result does not depend on low fps screen sharing or on the plan
\* (SpecEncodings).
C17_DesktopActiveFlags ==
    enc.fn = "calculateEncodingsActiveState" =>
        /\ DOMAIN enc.out = DOMAIN localStreamEncodingsConfig
        /\ enc.in.videoType = DESKTOP =>
              IF enc.in.isSharingLowFpsScreen /\ enc.in.usesUnifiedPlan /\ ~isWebKitBased
              THEN /\ ActiveLayers = {i \in DOMAIN Scales : Scales[i] = 1}
                   /\ Cardinality(ActiveLayers) = 1
              ELSE ActiveLayers = DOMAIN enc.out
        /\ enc.in.videoType = DESKTOP /\ isWebKitBased => ActiveLayers = DOMAIN enc.out
        /\ enc.in.videoType = CAMERA =>
              \A lowFps \in BOOLEAN, unified \in BOOLEAN :
                 enc.out = calculateEncodingsActiveState(
                              [enc.in EXCEPT !.isSharingLowFpsScreen = lowFps,
                                             !.usesUnifiedPlan = unified])

\* Low fps screen sharing of a desktop track in unified plan on Firefox, whose
\* first layer has the scale factor 1: only the first layer is active.
C17_Witness ==
    /\ enc.fn = "calculateEncodingsActiveState"
    /\ enc.in.videoType = DESKTOP
    /\ enc.in.isSharingLowFpsScreen
    /\ enc.in.usesUnifiedPlan
    /\ isFirefox
    /\ Scales = <<1, 2, 4>>
    /\ enc.out = <<TRUE, FALSE, FALSE>>

\* The transceiver at position i (from 0) of the given ones, in the order of
\* the transceiver list (0: there is none).
AtPosition(matches, i) ==
    IF i + 1 <= Cardinality(matches) THEN Filter(matches)[i + 1] ELSE 0

\* C18: under the third rule of replaceTrack, a source name of index i selects
\* the i-th (from 0) of the transceivers of the kind that are not recvonly,
\* for every i, 0 included; without a source name the first transceiver of
\* the kind is selected (Spec).
C18_IndexedSelection ==
    [][\A in \in ReplaceInputs :
          (/\ result'.op = "replaceTrack"
           /\ ReplaceRule(in) = 3
           /\ ReplaceStep(in))
          => result'.tr =
                IF in.sourceName = Undefined
                THEN FindFirst(OfKind(ReplaceKind(in)))
                ELSE AtPosition(NotRecvonly(ReplaceKind(in)), in.sourceName[1].index)]_vars

\* The ssrc-group lines of a section of the text, in order.
GroupsOf(section) == LinesOf(section.lines, "ssrc-group")

\* The positions of the ssrc entries of an id in the lines of a section.
EntriesOf(section, id) ==
    {k \in DOMAIN section.lines : section.lines[k].a = "ssrc" /\ section.lines[k].id = id}

\* The RTX ssrc of a FID group is named by that group only.
RtxInOneGroup(section) ==
    \A g \in DOMAIN GroupsOf(section) :
       GroupsOf(section)[g].semantics = "FID" =>
          /\ GroupsOf(section)[g].ssrcs[1] # GroupsOf(section)[g].ssrcs[2]
          /\ \A h \in DOMAIN GroupsOf(section) \ {g} :
                GroupsOf(section)[g].ssrcs[2] \notin Range(GroupsOf(section)[h].ssrcs)

\* In the section after, every entry of the primary ssrc of each FID group of
\* the section before precedes every entry of the group's RTX ssrc.
PrimaryBeforeRtx(before, after) ==
    \A g \in DOMAIN GroupsOf(before) :
       GroupsOf(before)[g].semantics = "FID" =>
          \A a \in EntriesOf(after, GroupsOf(before)[g].ssrcs[1]),
             b \in EntriesOf(after, GroupsOf(before)[g].ssrcs[2]) : a < b

UnmuteCommit(k) ==
    /\ pending[k].call = "setParameters"
    /\ pending[k].res.op = "addTrackUnmute"
    /\ pending[k].promote # 0

\* C20: within one addTrackUnmute on a recvonly transceiver the lookup comes
\* first, then the commit of the encodings, then the promotion to sendrecv,
\* then the settlement: when the call has handed the encodings to the
\* transport the transceiver is recvonly still; when the commit succeeds the
\* transceiver is sendrecv and the promise resolves; when the commit fails
\* the transceiver stays recvonly and the promise is rejected (Spec).
C20_PromotionAfterCommit ==
    [][/\ \A t \in Tracks :
             (/\ result'.op = "addTrackUnmute"
              /\ result'.state = "pending"
              /\ FindFirst(OfKind(Kind(t))) # 0
              /\ transceivers[FindFirst(OfKind(Kind(t)))].direction = RECVONLY
              /\ addTrackUnmute(t, TRUE))
             => /\ result'.tr = FindFirst(OfKind(Kind(t)))
                /\ pending'[Len(pending')].promote = result'.tr
                /\ transceivers'[result'.tr].direction = RECVONLY
       /\ \A k \in DOMAIN pending :
             /\ (UnmuteCommit(k) /\ SettleSetParameters(k))
                   => /\ transceivers'[pending[k].tr].encodings = pending[k].encodings
                      /\ transceivers'[pending[k].promote].direction = SENDRECV
                      /\ result'.state = "resolved"
             /\ (UnmuteCommit(k) /\ SettleRejected(k))
                   => /\ transceivers'[pending[k].promote].direction = RECVONLY
                      /\ result'.state = "rejected"]_vars

\* C21: in every step of a connection no transceiver is removed, a
\* transceiver is created only by addTrack as initiator (or by the remote
\* side), a direction is written only as sendrecv, recvonly or inactive, and
\* removeTrackMute leaves the number of transceivers and every direction as
\* they were, setting only the track of one sender to null (Spec).
C21_TransceiversExternallyOwned ==
    [][/\ Len(transceivers') >= Len(transceivers)
       /\ \A i \in Indexes :
             /\ transceivers'[i].kind = transceivers[i].kind
             /\ transceivers'[i].direction # transceivers[i].direction
                   => transceivers'[i].direction \in {SENDRECV, RECVONLY, INACTIVE}
       /\ Len(transceivers') > Len(transceivers)
             => \/ \E t \in Tracks : addTrack(t, TRUE)
                \/ RemoteAdds
       /\ \A t \in Tracks :
             (result'.op = "removeTrackMute" /\ removeTrackMute(t))
                => transceivers' = transceivers
       /\ \A k \in DOMAIN pending :
             (pending[k].res.op = "removeTrackMute" /\ SettleReplaceTrack(k))
                => transceivers' = [transceivers EXCEPT ![pending[k].tr].track = NoTrack]]_vars

\* Media transfer of a kind is suspended: a transceiver of the kind has the
\* direction that only setMediaTransferActive(kind, false) writes, which
\* setMediaTransferActive(kind, true) leaves on none, and none is sendrecv.
Suspended(mediaType) ==
    /\ \E i \in OfKind(mediaType) : transceivers[i].direction = INACTIVE
    /\ \A i \in OfKind(mediaType) : transceivers[i].direction # SENDRECV

\* C22: while media transfer of a kind is suspended, no step other than
\* setMediaTransferActive(kind, true) (and the addition of a new track) makes
\* a transceiver of the kind sendrecv: neither a mute, unmute or replace
\* called during the suspension nor the continuation of one called before
\* it (Spec).
C22_SuspensionHolds ==
    [][\A mediaType \in {AUDIO, VIDEO} :
          (/\ Suspended(mediaType)
           /\ result'.op # "addTrack"
           /\ ~setMediaTransferActive(mediaType, TRUE))
          => \A i \in DOMAIN transceivers' :
                transceivers'[i].kind = mediaType => transceivers'[i].direction # SENDRECV]_vars

\* The senders that carry a track, in the state after a step.
CarryingAfter(t) == {i \in DOMAIN transceivers' : transceivers'[i].track = t}

\* removeTrackMute of the track has just completed on transceiver x, which
\* was the one sender that carried it.
MutedOn(x) ==
    /\ result = Outcome("removeTrackMute", "resolved", "none", x)
    /\ pending = <<>>
    /\ x \in Indexes
    /\ transceivers[x].track = NoTrack
    /\ Carrying(RoundTripTrack) = {}

\* C23: mute followed by unmute is a round trip: after removeTrackMute(t) has
\* taken t off the sender of transceiver x, addTrackUnmute(t) gives t back to
\* the sender of x and to no other sender, whatever other transceivers of the
\* kind there are (SpecRoundTrip).
C23_MuteUnmuteRoundTrip ==
    [][\A x \in 1..MaxTransceivers :
          (/\ result'.op = "addTrackUnmute"
           /\ MutedOn(x)
           /\ addTrackUnmute(RoundTripTrack, TRUE))
          => \/ /\ result'.state = "pending"
                /\ CarryingAfter(RoundTripTrack) = {}
                /\ pending' = <<Promise("replaceTrack", x, RoundTripTrack, <<>>, 0, result')>>
             \/ /\ result'.state = "pending"
                /\ CarryingAfter(RoundTripTrack) = {x}
                /\ pending'[1].call = "setParameters"]_vars

====
